---- MODULE Spec2Model ----
(***************************************************************************)
(* Verification model of the bank-manager front end:                       *)
(*   - FinanceService: the 30 s quote cache in front of the quote API      *)
(*   - AccountService / StorageService / EditAccount: the stored accounts  *)
(*   - AccountService.generateAccountNumber and ValidationService CPF/CNPJ *)
(* JavaScript strings are sequences of one-character strings.              *)
(***************************************************************************)
EXTENDS Integers, Sequences, FiniteSets, TLC

VARIABLES
    now,            \* Date.now() as seen by FinanceService (ms)
    ticks,          \* number of clock advances taken so far
    CACHE,          \* FinanceService.CACHE: key -> [data, timestamp]
    req,            \* how many calls of each kind are suspended in axios.get
    last,           \* what the latest step of a FinanceService call did
    lastOp,         \* name of the operation that ran last
    lsAccounts,     \* localStorage accounts collection (as parsed)
    lsInvestments,  \* localStorage investments collection (as parsed)
    result,         \* what the last account operation returned
    nextId,         \* number of ids drawn from crypto.randomUUID()
    edits,          \* number of EditAccount saves so far
    fnIn,           \* argument of the pure function under study
    fnOut,          \* its return value
    calls,          \* the createAccount activations suspended at an await
    localStorage,   \* the raw localStorage items behind StorageService
    form,           \* the state kept by one useForm hook
    timers          \* one utils.debounce closure and the timers it has set

vars == <<now, ticks, CACHE, req, last, lastOp, lsAccounts, lsInvestments,
          result, nextId, edits, fnIn, fnOut, calls, localStorage,
          form, timers>>

cacheVars == <<now, ticks, CACHE, req, last>>
accountVars == <<lsAccounts, lsInvestments, result, nextId, edits>>
fnVars == <<fnIn, fnOut>>
tabVars == <<calls, localStorage>>
hookVars == <<form, timers>>

----------------------------------------------------------------------------
(* Bounds                                                                  *)
MaxTicks == 2
MaxReq == 2
MaxAccounts == 2
MaxEdits == 1
MaxPending == 2
MaxCalls == 3
MaxClock == 5

----------------------------------------------------------------------------
(* Strings                                                                 *)
Digits == {"0", "1", "2", "3", "4", "5", "6", "7", "8", "9"}

DigitVal(c) ==
    CASE c = "0" -> 0 [] c = "1" -> 1 [] c = "2" -> 2 [] c = "3" -> 3
      [] c = "4" -> 4 [] c = "5" -> 5 [] c = "6" -> 6 [] c = "7" -> 7
      [] c = "8" -> 8 [] c = "9" -> 9

DigitChar(d) ==
    CASE d = 0 -> "0" [] d = 1 -> "1" [] d = 2 -> "2" [] d = 3 -> "3"
      [] d = 4 -> "4" [] d = 5 -> "5" [] d = 6 -> "6" [] d = 7 -> "7"
      [] d = 8 -> "8" [] d = 9 -> "9"

IsDigit(c) == c \in Digits

\* String.prototype.toUpperCase / toLowerCase on the letters used here
UpperChar(c) == CASE c = "a" -> "A" [] c = "b" -> "B" [] OTHER -> c
LowerChar(c) == CASE c = "A" -> "a" [] c = "B" -> "b" [] OTHER -> c
toUpperCase(s) == [i \in 1..Len(s) |-> UpperChar(s[i])]
toLowerCase(s) == [i \in 1..Len(s) |-> LowerChar(s[i])]

stripNonDigits_first(s) ==
    IF \A i \in 1..Len(s) : IsDigit(s[i]) THEN s
    ELSE LET k == CHOOSE i \in 1..Len(s) :
                    ~IsDigit(s[i]) /\ \A j \in 1..(i - 1) : IsDigit(s[j])
         IN SubSeq(s, 1, k - 1) \o SubSeq(s, k + 1, Len(s))

\* value.replace(/\D/g, ''): keep the decimal digits, drop everything else
stripNonDigits(s) == SelectSeq(s, IsDigit)

\* /^(\d)\1{n-1}$/ on a string of n digits: all characters equal
allSameDigit(s) == \A i \in 1..Len(s) : s[i] = s[1]

\* Number.prototype.toString() of a non-negative integer
RECURSIVE toString(_)
toString(n) ==
    IF n < 10 THEN <<DigitChar(n)>>
    ELSE Append(toString(n \div 10), DigitChar(n % 10))

sliceLast_all(s, k) == s

\* String.prototype.slice(-k): the last k characters, the whole string when
\* it is shorter
sliceLast(s, k) ==
    IF Len(s) <= k THEN s ELSE SubSeq(s, Len(s) - k + 1, Len(s))

\* String.prototype.padStart(k, '0')
RECURSIVE padStart0(_, _)
padStart0(s, k) == IF Len(s) >= k THEN s ELSE padStart0(<<"0">> \o s, k)

----------------------------------------------------------------------------
(* ValidationService (second class body of validation.ts) and validators   *)

\* sum over i = 1..n of parseInt(clean.substring(i - 1, i)) * (w - i)
RECURSIVE cpfSum(_, _, _)
cpfSum(clean, n, w) ==
    IF n = 0 THEN 0
    ELSE cpfSum(clean, n - 1, w) + DigitVal(clean[n]) * (w - n)

cpfRemainder_plain(sum) ==
    LET r == sum % 11
    IN IF r = 10 \/ r = 11 THEN 0 ELSE r

\* remainder = (sum * 10) % 11; if (remainder === 10 || remainder === 11) 0
cpfRemainder(sum) ==
    LET r == (sum * 10) % 11
    IN IF r = 10 \/ r = 11 THEN 0 ELSE r

validateCPF(cpf) ==
    LET cleanCpf == stripNonDigits(cpf)
    IN /\ Len(cpf) > 0
       /\ Len(cleanCpf) = 11
       /\ ~allSameDigit(cleanCpf)
       /\ cpfRemainder(cpfSum(cleanCpf, 9, 11)) = DigitVal(cleanCpf[10])
       /\ cpfRemainder(cpfSum(cleanCpf, 10, 12)) = DigitVal(cleanCpf[11])

\* the first copy of ValidationService.validateCPF (validation.ts 62-98);
\* class members of the same name: the later one is the one that stays
validateCPF_enhanced_noPattern(cpf) ==
    LET cleanCpf == stripNonDigits(cpf)
    IN /\ Len(cpf) > 0
       /\ Len(cleanCpf) = 11
       /\ cpfRemainder(cpfSum(cleanCpf, 9, 11)) = DigitVal(cleanCpf[10])
       /\ cpfRemainder(cpfSum(cleanCpf, 10, 12)) = DigitVal(cleanCpf[11])

validateCPF_enhanced(cpf) ==
    LET cleanCpf == stripNonDigits(cpf)
    IN /\ Len(cpf) > 0
       /\ Len(cleanCpf) = 11
       /\ ~allSameDigit(cleanCpf)
       /\ cpfRemainder(cpfSum(cleanCpf, 9, 11)) = DigitVal(cleanCpf[10])
       /\ cpfRemainder(cpfSum(cleanCpf, 10, 12)) = DigitVal(cleanCpf[11])

\* validators.cpf of utils/formatters.ts
validators_cpf(value) ==
    LET clean == stripNonDigits(value)
    IN /\ Len(clean) = 11
       /\ ~allSameDigit(clean)
       /\ cpfRemainder(cpfSum(clean, 9, 11)) = DigitVal(clean[10])
       /\ cpfRemainder(cpfSum(clean, 10, 12)) = DigitVal(clean[11])

weights1 == <<5, 4, 3, 2, 9, 8, 7, 6, 5, 4, 3, 2>>
weights2 == <<6, 5, 4, 3, 2, 9, 8, 7, 6, 5, 4, 3, 2>>

\* sum over i = 0..n-1 of parseInt(clean[i]) * weights[i]
RECURSIVE weightedSum(_, _, _)
weightedSum(clean, weights, n) ==
    IF n = 0 THEN 0
    ELSE weightedSum(clean, weights, n - 1) + DigitVal(clean[n]) * weights[n]

mod11Digit_noFold(sum) == 11 - (sum % 11)

\* remainder < 2 ? 0 : 11 - remainder
mod11Digit(sum) ==
    LET remainder == sum % 11
    IN IF remainder < 2 THEN 0 ELSE 11 - remainder

validateCNPJ(cnpj) ==
    LET cleanCnpj == stripNonDigits(cnpj)
    IN /\ Len(cnpj) > 0
       /\ Len(cleanCnpj) = 14
       /\ ~allSameDigit(cleanCnpj)
       /\ mod11Digit(weightedSum(cleanCnpj, weights1, 12)) = DigitVal(cleanCnpj[13])
       /\ mod11Digit(weightedSum(cleanCnpj, weights2, 13)) = DigitVal(cleanCnpj[14])

\* validators.cnpj of utils/formatters.ts
validators_cnpj(value) ==
    LET clean == stripNonDigits(value)
    IN /\ Len(clean) = 14
       /\ ~allSameDigit(clean)
       /\ mod11Digit(weightedSum(clean, weights1, 12)) = DigitVal(clean[13])
       /\ mod11Digit(weightedSum(clean, weights2, 13)) = DigitVal(clean[14])

----------------------------------------------------------------------------
(* formatters and utils of utils/formatters.ts                             *)

replaceCpfPattern_short(digits) ==
    IF Len(digits) < 11 THEN digits
    ELSE SubSeq(digits, 1, 3) \o <<".">> \o SubSeq(digits, 4, 6) \o <<".">>
           \o SubSeq(digits, 7, 9) \o <<"-">> \o SubSeq(digits, 10, 10)

\* digits.replace(/^(\d{3})(\d{3})(\d{3})(\d{2}).*/, '$1.$2.$3-$4') on a string
\* of digits: without eleven digits nothing matches and nothing is replaced
replaceCpfPattern(digits) ==
    IF Len(digits) < 11 THEN digits
    ELSE SubSeq(digits, 1, 3) \o <<".">> \o SubSeq(digits, 4, 6) \o <<".">>
           \o SubSeq(digits, 7, 9) \o <<"-">> \o SubSeq(digits, 10, 11)

\* digits.replace(/^(\d{2})(\d{3})(\d{3})(\d{4})(\d{2}).*/, '$1.$2.$3/$4-$5')
replaceCnpjPattern(digits) ==
    IF Len(digits) < 14 THEN digits
    ELSE SubSeq(digits, 1, 2) \o <<".">> \o SubSeq(digits, 3, 5) \o <<".">>
           \o SubSeq(digits, 6, 8) \o <<"/">> \o SubSeq(digits, 9, 12)
           \o <<"-">> \o SubSeq(digits, 13, 14)

formatters_cpf(value) ==
    IF Len(value) = 0 THEN <<>>
    ELSE LET digits == stripNonDigits(value)
         IN IF Len(digits) <= 11 THEN replaceCpfPattern(digits) ELSE value

formatters_cnpj(value) ==
    IF Len(value) = 0 THEN <<>>
    ELSE LET digits == stripNonDigits(value)
         IN IF Len(digits) <= 14 THEN replaceCnpjPattern(digits) ELSE value

cleanCPF(cpf) == stripNonDigits(cpf)
cleanCNPJ(cnpj) == stripNonDigits(cnpj)

----------------------------------------------------------------------------
(* FinanceService: cache                                                   *)
CACHE_DURATION == 30000

QuotePrefix == <<"q", "_">>
SearchPrefix == <<"s", "_">>
DollarKey == <<"d", "_", "q">>

quoteKey(symbol) == QuotePrefix \o toUpperCase(symbol)
searchKey(query) == SearchPrefix \o toLowerCase(query)

Symbols == {<<"a", "b">>, <<"A", "B">>}
Queries == {<<"a", "b">>, <<"A", "b">>, <<"a">>}
Prices == {1, 2}
TickSteps == {1, CACHE_DURATION - 1}

\* What the provider can answer: a well-formed payload, an empty or
\* malformed body, an HTTP error status, or no answer at all.
Responses ==
    [kind : {"ok"}, price : Prices, status : {200}]
      \cup [kind : {"empty", "invalid", "network"}, price : {0}, status : {0}]
      \cup [kind : {"http"}, price : {0}, status : {404}]

isCacheValid_le(cache, key, t) ==
    /\ key \in DOMAIN cache
    /\ (t - cache[key].timestamp) <= CACHE_DURATION

isCacheValid(cache, key, t) ==
    /\ key \in DOMAIN cache
    /\ (t - cache[key].timestamp) < CACHE_DURATION

setCache(cache, key, data, t) ==
    [k \in DOMAIN cache \cup {key} |->
        IF k = key THEN [data |-> data, timestamp |-> t] ELSE cache[k]]

NullData == 0 - 1

getCache(cache, key) ==
    IF key \in DOMAIN cache THEN cache[key].data ELSE NullData

EmptyCache == [k \in {} |-> 0]

getCacheStats_purged(cache, t) ==
    [totalEntries |-> Cardinality({k \in DOMAIN cache : isCacheValid(cache, k, t)}),
     validEntries |-> Cardinality({k \in DOMAIN cache : isCacheValid(cache, k, t)}),
     expiredEntries |-> Cardinality({k \in DOMAIN cache : ~isCacheValid(cache, k, t)})]

getCacheStats(cache, t) ==
    [totalEntries |-> Cardinality(DOMAIN cache),
     validEntries |-> Cardinality({k \in DOMAIN cache : isCacheValid(cache, k, t)}),
     expiredEntries |-> Cardinality({k \in DOMAIN cache : ~isCacheValid(cache, k, t)})]

\* The calls that can be suspended in axios.get: which method, on which key
Calls ==
    {[op |-> "getStockQuote", key |-> quoteKey(s)] : s \in Symbols}
      \cup {[op |-> "getDollarQuote", key |-> DollarKey]}
      \cup {[op |-> "searchStocks", key |-> searchKey(q)] :
                q \in {x \in Queries : Len(x) >= 2}}

InFlight == LET Sum[S \in SUBSET Calls] ==
                    IF S = {} THEN 0
                    ELSE LET c == CHOOSE x \in S : TRUE
                         IN req[c] + Sum[S \ {c}]
            IN Sum[Calls]

NoAnswer ==
    [op |-> "none", key |-> <<>>, outcome |-> "none", success |-> FALSE,
     data |-> NullData, error |-> "none"]

lookup_singleFlight(op, key) ==
    IF isCacheValid(CACHE, key, now)
    THEN /\ req' = req
         /\ last' = [op |-> op, key |-> key, outcome |-> "hit",
                     success |-> TRUE, data |-> getCache(CACHE, key),
                     error |-> "none"]
    ELSE IF req[[op |-> op, key |-> key]] > 0
    THEN /\ req' = req
         /\ last' = [op |-> op, key |-> key, outcome |-> "joined",
                     success |-> FALSE, data |-> NullData, error |-> "none"]
    ELSE /\ InFlight < MaxReq
         /\ req' = [req EXCEPT ![[op |-> op, key |-> key]] = @ + 1]
         /\ last' = [op |-> op, key |-> key, outcome |-> "sent",
                     success |-> FALSE, data |-> NullData, error |-> "none"]

\* The cache lookup at the top of the three methods (finance.ts 55-62,
\* 168-175, 269-272): a valid entry answers the call at once, otherwise
\* the call suspends in axios.get.
lookup(op, key) ==
    IF isCacheValid(CACHE, key, now)
    THEN /\ req' = req
         /\ last' = [op |-> op, key |-> key, outcome |-> "hit",
                     success |-> TRUE, data |-> getCache(CACHE, key),
                     error |-> "none"]
    ELSE /\ InFlight < MaxReq
         /\ req' = [req EXCEPT ![[op |-> op, key |-> key]] = @ + 1]
         /\ last' = [op |-> op, key |-> key, outcome |-> "sent",
                     success |-> FALSE, data |-> NullData, error |-> "none"]

getStockQuote(symbol) ==
    /\ lookup("getStockQuote", quoteKey(symbol))
    /\ lastOp' = "getStockQuote"
    /\ UNCHANGED <<now, ticks, CACHE>>
    /\ UNCHANGED <<accountVars, fnVars>>
    /\ UNCHANGED hookVars
    /\ UNCHANGED tabVars

getDollarQuote ==
    /\ lookup("getDollarQuote", DollarKey)
    /\ lastOp' = "getDollarQuote"
    /\ UNCHANGED <<now, ticks, CACHE>>
    /\ UNCHANGED <<accountVars, fnVars>>
    /\ UNCHANGED hookVars
    /\ UNCHANGED tabVars

searchStocks(query) ==
    /\ IF Len(query) < 2
       THEN /\ req' = req
            /\ last' = [op |-> "searchStocks", key |-> searchKey(query),
                        outcome |-> "short", success |-> TRUE, data |-> 0,
                        error |-> "none"]
       ELSE lookup("searchStocks", searchKey(query))
    /\ lastOp' = "searchStocks"
    /\ UNCHANGED <<now, ticks, CACHE>>
    /\ UNCHANGED <<accountVars, fnVars>>
    /\ UNCHANGED hookVars
    /\ UNCHANGED tabVars

\* The error message the catch block derives from the failure
errorMessage(op, resp) ==
    CASE resp.kind = "empty" -> "no data"
      [] resp.kind = "invalid" -> "invalid data"
      [] resp.kind = "network" -> "connection error"
      [] resp.kind = "http" /\ resp.status = 404 /\ op = "getStockQuote" -> "not found"
      [] OTHER -> "api error"

\* Does the awaited request of operation op end in the catch block on this
\* response (axios rejects, or the body fails the checks that follow)?
throws(op, resp) ==
    IF op = "searchStocks"
    THEN resp.kind \in {"network", "http"}
    ELSE resp.kind # "ok"

\* searchStocks leaves through `return []` at line 290 when the body is not
\* an array
notArray(op, resp) == op = "searchStocks" /\ resp.kind = "invalid"

\* The payload the method builds from a good body (an empty array for a
\* search that matched nothing)
payload(op, resp) == IF resp.kind = "ok" THEN resp.price ELSE 0

cacheAfter_early(op, key, resp, cache, t) ==
    setCache(cache, key, payload(op, resp), t)

\* The cache once the await of a call resumes with resp
cacheAfter(op, key, resp, cache, t) ==
    IF throws(op, resp) \/ notArray(op, resp) THEN cache
    ELSE setCache(cache, key, payload(op, resp), t)

\* The value the call resolves to
answer(op, key, resp) ==
    IF throws(op, resp)
    THEN IF op = "searchStocks"
         THEN [op |-> op, key |-> key, outcome |-> "failed", success |-> TRUE,
               data |-> 0, error |-> "none"]
         ELSE [op |-> op, key |-> key, outcome |-> "failed", success |-> FALSE,
               data |-> NullData, error |-> errorMessage(op, resp)]
    ELSE IF notArray(op, resp)
         THEN [op |-> op, key |-> key, outcome |-> "failed", success |-> TRUE,
               data |-> 0, error |-> "none"]
         ELSE [op |-> op, key |-> key, outcome |-> "fetched", success |-> TRUE,
               data |-> payload(op, resp), error |-> "none"]

\* axios.get settles and the rest of the method runs
complete(c, resp) ==
    /\ req[c] > 0
    /\ CACHE' = cacheAfter(c.op, c.key, resp, CACHE, now)
    /\ last' = answer(c.op, c.key, resp)
    /\ req' = [req EXCEPT ![c] = @ - 1]
    /\ lastOp' = "complete"
    /\ UNCHANGED <<now, ticks>>
    /\ UNCHANGED <<accountVars, fnVars>>
    /\ UNCHANGED hookVars
    /\ UNCHANGED tabVars

clearCache_expiredOnly(cache, t) ==
    [k \in {x \in DOMAIN cache : isCacheValid(cache, x, t)} |-> cache[k]]

clearCache(cache, t) ==
    [k \in {} |-> cache[k]]

clearCacheCall ==
    /\ CACHE' = clearCache(CACHE, now)
    /\ last' = [op |-> "clearCache", key |-> <<>>, outcome |-> "cleared",
                success |-> TRUE, data |-> Cardinality(DOMAIN CACHE),
                error |-> "none"]
    /\ lastOp' = "clearCache"
    /\ UNCHANGED <<now, ticks, req>>
    /\ UNCHANGED <<accountVars, fnVars>>
    /\ UNCHANGED hookVars
    /\ UNCHANGED tabVars

Tick(d) ==
    /\ ticks < MaxTicks
    /\ now' = now + d
    /\ ticks' = ticks + 1
    /\ last' = NoAnswer
    /\ lastOp' = "tick"
    /\ UNCHANGED <<CACHE, req>>
    /\ UNCHANGED <<accountVars, fnVars>>
    /\ UNCHANGED hookVars
    /\ UNCHANGED tabVars

\* The browser tabs (or overlapping calls) running createAccount, none of
\* them started
Tabs == {1, 2}
NoCalls == [t \in Tabs |-> [pc |-> "idle"]]

\* localStorage.getItem gives null for a key never written
Absent == [kind |-> "absent", value |-> <<>>]
EmptyStorage == [accounts |-> Absent, investments |-> Absent]

\* the form of the new-account page as useForm holds it after construction:
\* values = initialValues, no errors, isSubmitting false; pending counts the
\* onSubmit promises that have not settled yet
initialValues ==
    [customerCpf |-> <<>>, accountType |-> "CHECKING", balance |-> 0,
     isBusinessAccount |-> FALSE, businessCnpj |-> <<>>]

InitialForm ==
    [values |-> initialValues, errors |-> {}, isSubmitting |-> FALSE,
     pending |-> 0]

\* a closure of utils.debounce right after it was made: timeoutId undefined
\* (0; setTimeout hands out positive ids), no timer set, nothing logged yet
NoTimers ==
    [clock |-> 0, timeoutId |-> 0, queue |-> {}, issued |-> 0, log |-> <<>>]

InitRest ==
    /\ now = 0 /\ ticks = 0 /\ CACHE = EmptyCache
    /\ req = [c \in Calls |-> 0]
    /\ last = NoAnswer
    /\ lastOp = "init"
    /\ lsAccounts = <<>> /\ lsInvestments = <<>>
    /\ result = [success |-> TRUE, kind |-> "none"]
    /\ nextId = 0 /\ edits = 0
    /\ fnIn = <<>> /\ fnOut = <<>>
    /\ calls = NoCalls /\ localStorage = EmptyStorage
    /\ form = InitialForm /\ timers = NoTimers

InitCache == InitRest

NextCache ==
    \/ \E s \in Symbols : getStockQuote(s)
    \/ getDollarQuote
    \/ \E q \in Queries : searchStocks(q)
    \/ \E c \in Calls, resp \in Responses : complete(c, resp)
    \/ clearCacheCall
    \/ \E d \in TickSteps : Tick(d)

SpecCache == InitCache /\ [][NextCache]_vars

----------------------------------------------------------------------------
(* Claims about the quote cache                                            *)
LookupOps == {"getStockQuote", "getDollarQuote", "searchStocks"}

Fresh(key) == key \in DOMAIN CACHE /\ now - CACHE[key].timestamp < 30000

C2_FailureLeavesCache ==
    [][(lastOp' = "complete" /\ last'.outcome = "failed") => CACHE' = CACHE]_vars

C2_Witness ==
    /\ lastOp = "complete"
    /\ last.outcome = "failed"
    /\ last.key \in DOMAIN CACHE
    /\ now - CACHE[last.key].timestamp >= 30000

\* C3: right after clearCache() the cache holds no entry, getCacheStats
\* reports totalEntries 0, and a call that comes next is a cache miss.
C3_ClearEmpties ==
    [][/\ lastOp' = "clearCache" =>
            /\ DOMAIN CACHE' = {}
            /\ getCacheStats(CACHE', now').totalEntries = 0
       /\ (lastOp = "clearCache" /\ lastOp' \in LookupOps) =>
            last'.outcome # "hit"]_vars

C3_Witness ==
    /\ lastOp = "clearCache"
    /\ last.data >= 2
    /\ getCacheStats(CACHE, now).totalEntries = 0

\* C15: getCacheStats always reports totalEntries = validEntries +
\* expiredEntries, an entry of age 30000 or more being counted as expired while
\* it stays stored: a clock advance or a lookup changes nothing in the cache,
\* a completed fetch only writes the entry of its own key, and only clearCache
\* removes entries.
C15_StatsAndLazyExpiry ==
    [][LET stats == getCacheStats(CACHE', now')
       IN /\ stats.totalEntries = stats.validEntries + stats.expiredEntries
          /\ stats.totalEntries = Cardinality(DOMAIN CACHE')
          /\ stats.expiredEntries =
                Cardinality({k \in DOMAIN CACHE' : now' - CACHE'[k].timestamp >= 30000})
          /\ lastOp' # "clearCache" => DOMAIN CACHE \subseteq DOMAIN CACHE'
          /\ lastOp' \in LookupOps \cup {"tick"} => CACHE' = CACHE
          /\ lastOp' = "complete" =>
                \A k \in DOMAIN CACHE' \ {last'.key} :
                    k \in DOMAIN CACHE /\ CACHE'[k] = CACHE[k]]_vars

C15_Witness ==
    /\ lastOp \in LookupOps
    /\ last.outcome = "sent"
    /\ last.key \in DOMAIN CACHE
    /\ getCacheStats(CACHE, now).expiredEntries >= 1
    /\ getCacheStats(CACHE, now).validEntries >= 1

\* C16: when the provider fails, the caller of getStockQuote, getDollarQuote
\* or searchStocks sees a failure that carries the provider's error, never a
\* success result.
C16_FailurePassedThrough ==
    (lastOp = "complete" /\ last.outcome = "failed") =>
        /\ ~last.success
        /\ last.error # "none"

\* C18: a call that misses the cache sends its own request even while a
\* request for the same key is still pending, and every request that
\* completes well stores its own payload with the time of its completion, so
\* the entry is that of the request that completed last.
C18_NoSingleFlight ==
    [][/\ (lastOp' \in LookupOps /\ last'.outcome \notin {"hit", "short"}) =>
            /\ last'.outcome = "sent"
            /\ req' = [req EXCEPT ![[op |-> last'.op, key |-> last'.key]] = @ + 1]
       /\ (lastOp' = "complete" /\ last'.outcome = "fetched") =>
            /\ CACHE'[last'.key] = [data |-> last'.data, timestamp |-> now']
            /\ req' = [req EXCEPT ![[op |-> last'.op, key |-> last'.key]] = @ - 1]]_vars

C18_Witness ==
    /\ lastOp = "complete"
    /\ last.outcome = "fetched"
    /\ req[[op |-> last.op, key |-> last.key]] >= 1
    /\ CACHE[last.key].timestamp = now
    /\ now > 0

----------------------------------------------------------------------------
(* AccountService, StorageService and the EditAccount page                 *)
AccountTypes == {"SAVINGS", "CHECKING", "BUSINESS"}

ACCOUNT_NUMBER_PREFIX(accountType) ==
    CASE accountType = "SAVINGS" -> <<"1", "0">>
      [] accountType = "CHECKING" -> <<"2", "0">>
      [] accountType = "BUSINESS" -> <<"3", "0">>

accountWeights == <<2, 3, 4, 5, 6, 7, 8, 9>>

\* sum over i = 0..n-1 of parseInt(baseNumber[i]) * weights[i % weights.length]
RECURSIVE checkSum(_, _)
checkSum(baseNumber, n) ==
    IF n = 0 THEN 0
    ELSE checkSum(baseNumber, n - 1)
           + DigitVal(baseNumber[n]) * accountWeights[((n - 1) % Len(accountWeights)) + 1]

calculateCheckDigit_noFold(baseNumber) ==
    toString(11 - (checkSum(baseNumber, Len(baseNumber)) % 11))

calculateCheckDigit(baseNumber) ==
    LET remainder == checkSum(baseNumber, Len(baseNumber)) % 11
    IN IF remainder < 2 THEN <<"0">> ELSE toString(11 - remainder)

generateAccountNumber_noPad(accountType, clock, rnd) ==
    LET prefix == ACCOUNT_NUMBER_PREFIX(accountType)
        timestamp == sliceLast(toString(clock), 6)
        random == toString(rnd)
        checkDigit == calculateCheckDigit(prefix \o timestamp \o random)
    IN prefix \o timestamp \o random \o <<"-">> \o checkDigit

\* clock is Date.now(), rnd is Math.floor(Math.random() * 1000)
generateAccountNumber(accountType, clock, rnd) ==
    LET prefix == ACCOUNT_NUMBER_PREFIX(accountType)
        timestamp == sliceLast(toString(clock), 6)
        random == padStart0(toString(rnd), 3)
        checkDigit == calculateCheckDigit(prefix \o timestamp \o random)
    IN prefix \o timestamp \o random \o <<"-">> \o checkDigit

getMinimumBalance(accountType) ==
    CASE accountType = "SAVINGS" -> 0
      [] accountType = "CHECKING" -> 0
      [] accountType = "BUSINESS" -> 100

sanitizeDocument(value) == stripNonDigits(value)

\* businessCnpj of an account stored without one (undefined in the source)
Undefined == <<"undefined">>

\* Documents used as inputs
CpfA == <<"1", "1", "1", "4", "4", "4", "7", "7", "7", "3", "5">>
CpfAFormatted ==
    <<"1", "1", "1", ".", "4", "4", "4", ".", "7", "7", "7", "-", "3", "5">>
CpfB == <<"9", "8", "7", "6", "5", "4", "3", "2", "1", "0", "0">>
CpfBad == <<"1", "2", "3", "4", "5", "6", "7", "8", "9", "0", "0">>
CnpjA == <<"1", "1", "2", "2", "2", "3", "3", "3", "0", "0", "0", "1", "8", "1">>
CnpjBad == <<"1", "1", "2", "2", "2", "3", "3", "3", "0", "0", "0", "1", "8", "2">>

CpfInputs == {CpfA, CpfAFormatted, CpfB, CpfBad}
CnpjInputs == {<<>>, CnpjA, CnpjBad}
BalanceInputs == {0 - 5, 0, 50, 100}

\* CreateAccountCommand with customerName, customerEmail, customerPhone and
\* businessName well-formed: a personal command leaves businessCnpj empty
PersonalCommands ==
    [customerCpf : CpfInputs, accountType : AccountTypes,
     balance : BalanceInputs, isBusinessAccount : {FALSE},
     businessCnpj : {<<>>}]

BusinessCommands ==
    [customerCpf : CpfInputs, accountType : AccountTypes,
     balance : BalanceInputs, isBusinessAccount : {TRUE},
     businessCnpj : CnpjInputs]

Commands == PersonalCommands \cup BusinessCommands

\* ValidationService.validateField on the balance rule
\* {required, min: 0, custom}: a falsy value fails `required`
balanceError(value) == value = 0 \/ value < 0

\* ... on the customerCpf rule {required, custom: validateCPF}
cpfError(value) == Len(value) = 0 \/ ~validateCPF(value)

\* ... on the businessCnpj rule {required, custom: validateCNPJ}
cnpjError(value) == Len(value) = 0 \/ ~validateCNPJ(value)

\* ValidationService.validateSchema with the schema validateAccountCreation
\* picks: the names of the fields in error
validateSchema(command) ==
    {f \in {"customerCpf"} : cpfError(command.customerCpf)}
      \cup {f \in {"balance"} : balanceError(command.balance)}
      \cup {f \in {"businessCnpj"} :
                command.isBusinessAccount /\ cnpjError(command.businessCnpj)}

validateBusinessRules(command, existingAccounts) ==
    IF \E i \in 1..Len(existingAccounts) :
          existingAccounts[i].customerCpf = sanitizeDocument(command.customerCpf)
    THEN "duplicateCpf"
    ELSE IF /\ command.isBusinessAccount
            /\ Len(command.businessCnpj) > 0
            /\ \E i \in 1..Len(existingAccounts) :
                  existingAccounts[i].businessCnpj = sanitizeDocument(command.businessCnpj)
    THEN "duplicateCnpj"
    ELSE IF command.balance < getMinimumBalance(command.accountType)
    THEN "minBalance"
    ELSE "ok"

max(a, b) == IF a >= b THEN a ELSE b

\* The entity createAccount builds (step 4)
newAccount(command, id, accountNumber) ==
    [id |-> id,
     accountNumber |-> accountNumber,
     accountType |-> command.accountType,
     balance |-> max(0, command.balance),
     customerCpf |-> sanitizeDocument(command.customerCpf),
     businessCnpj |-> IF command.isBusinessAccount
                      THEN sanitizeDocument(command.businessCnpj)
                      ELSE Undefined]

Rejected_rethrown(kind) ==
    IF kind = "storage" THEN [success |-> FALSE, kind |-> "thrown"]
    ELSE [success |-> FALSE, kind |-> kind]

\* The results createAccount resolves to without an account: kind names the
\* return statement (validationErrors, one of the business-rule errors, or
\* the catch block for a failed write)
Rejected(kind) == [success |-> FALSE, kind |-> kind]
Succeeded == [success |-> TRUE, kind |-> "created"]

\* AccountService.createAccount: the result and the collection it leaves in
\* storage; writeOk = FALSE is localStorage.setItem throwing
createAccountEffect_saveFirst(command, stored, id, clock, rnd, writeOk) ==
    LET appended == Append(stored, newAccount(command, id,
                        generateAccountNumber(command.accountType, clock, rnd)))
    IN IF validateSchema(command) # {}
       THEN [result |-> Rejected("validationErrors"), stored |-> stored]
       ELSE IF validateBusinessRules(command, stored) # "ok"
       THEN [result |-> Rejected(validateBusinessRules(command, stored)),
             stored |-> IF writeOk THEN appended ELSE stored]
       ELSE IF ~writeOk
       THEN [result |-> Rejected("storage"), stored |-> stored]
       ELSE [result |-> Succeeded, stored |-> appended]

createAccountEffect(command, stored, id, clock, rnd, writeOk) ==
    IF validateSchema(command) # {}
    THEN [result |-> Rejected("validationErrors"), stored |-> stored]
    ELSE IF validateBusinessRules(command, stored) # "ok"
    THEN [result |-> Rejected(validateBusinessRules(command, stored)),
          stored |-> stored]
    ELSE IF ~writeOk
    THEN [result |-> Rejected("storage"), stored |-> stored]
    ELSE [result |-> Succeeded,
          stored |-> Append(stored, newAccount(command, id,
                        generateAccountNumber(command.accountType, clock, rnd)))]

\* Date.now() and Math.floor(Math.random() * 1000) seen by createAccount
CreateClocks == {1700123456}
CreateRandoms == {42}

createAccount(command, clock, rnd, writeOk) ==
    /\ nextId < MaxAccounts
    /\ \E eff \in {createAccountEffect(command, lsAccounts, 100 + nextId,
                                        clock, rnd, writeOk)} :
          /\ lsAccounts' = eff.stored
          /\ result' = eff.result
          /\ nextId' = IF eff.result.success THEN nextId + 1 ELSE nextId
    /\ lastOp' = "createAccount"
    /\ UNCHANGED <<lsInvestments, edits>>
    /\ UNCHANGED <<cacheVars, fnVars>>
    /\ UNCHANGED hookVars
    /\ UNCHANGED tabVars

\* parseFloat on the strings typed into the balance field: an optional sign
\* and the leading run of digits; no digit at all gives NaN
RECURSIVE leadingDigits(_)
leadingDigits(s) ==
    IF Len(s) = 0 \/ ~IsDigit(s[1]) THEN <<>>
    ELSE <<s[1]>> \o leadingDigits(Tail(s))

RECURSIVE digitsValue(_)
digitsValue(ds) ==
    IF Len(ds) = 0 THEN 0
    ELSE digitsValue(SubSeq(ds, 1, Len(ds) - 1)) * 10 + DigitVal(ds[Len(ds)])

unsignedPart(s) == IF Len(s) > 0 /\ s[1] = "-" THEN Tail(s) ELSE s

parseFloatIsNaN(s) == Len(leadingDigits(unsignedPart(s))) = 0

parseFloat(s) ==
    IF Len(s) > 0 /\ s[1] = "-"
    THEN 0 - digitsValue(leadingDigits(Tail(s)))
    ELSE digitsValue(leadingDigits(s))

BalanceStrings == {<<"0">>, <<"-", "5">>, <<"a">>}

\* formData of the EditAccount page with name, email and phone well-formed
EditForms ==
    [customerCpf : CpfInputs, accountType : AccountTypes,
     balance : BalanceStrings]

\* EditAccount.validateForm
validateForm(formData) ==
    /\ Len(formData.customerCpf) > 0
    /\ validators_cpf(formData.customerCpf)
    /\ ~parseFloatIsNaN(formData.balance)
    /\ parseFloat(formData.balance) >= 0

\* the cpfExists test of EditAccount.handleSubmit
cpfExists(formData, account, existingAccounts) ==
    \E i \in 1..Len(existingAccounts) :
        /\ existingAccounts[i].customerCpf = formData.customerCpf
        /\ existingAccounts[i].id # account.id

updatedAccount(formData, account) ==
    [account EXCEPT
        !.customerCpf = stripNonDigits(formData.customerCpf),
        !.accountType = formData.accountType,
        !.balance = parseFloat(formData.balance)]

\* EditAccount.handleSubmit on the account the page has loaded
handleSubmitEffect(formData, account, stored, writeOk) ==
    IF ~validateForm(formData)
    THEN [result |-> Rejected("formErrors"), stored |-> stored]
    ELSE IF cpfExists(formData, account, stored)
    THEN [result |-> Rejected("duplicateCpf"), stored |-> stored]
    ELSE IF ~writeOk
    THEN [result |-> Rejected("storage"), stored |-> stored]
    ELSE [result |-> [success |-> TRUE, kind |-> "updated"],
          stored |-> [i \in 1..Len(stored) |->
                        IF stored[i].id = account.id
                        THEN updatedAccount(formData, account)
                        ELSE stored[i]]]

EditAccountSave(i, formData, writeOk) ==
    /\ i \in 1..Len(lsAccounts)
    /\ edits < MaxEdits
    /\ \E eff \in {handleSubmitEffect(formData, lsAccounts[i], lsAccounts, writeOk)} :
          /\ lsAccounts' = eff.stored
          /\ result' = eff.result
          /\ edits' = IF eff.result.success THEN edits + 1 ELSE edits
    /\ lastOp' = "EditAccount"
    /\ UNCHANGED <<lsInvestments, nextId>>
    /\ UNCHANGED <<cacheVars, fnVars>>
    /\ UNCHANGED hookVars
    /\ UNCHANGED tabVars

\* StorageService.generateDemoData
demoAccounts ==
    << [id |-> 1,
        accountNumber |-> <<"1", "2", "3", "4", "5", "-", "6">>,
        accountType |-> "CHECKING", balance |-> 15000,
        customerCpf |-> <<"1", "2", "3", ".", "4", "5", "6", ".", "7", "8", "9", "-", "0", "0">>,
        businessCnpj |-> Undefined],
       [id |-> 2,
        accountNumber |-> <<"6", "7", "8", "9", "0", "-", "1">>,
        accountType |-> "SAVINGS", balance |-> 8500,
        customerCpf |-> <<"9", "8", "7", ".", "6", "5", "4", ".", "3", "2", "1", "-", "0", "0">>,
        businessCnpj |-> Undefined],
       [id |-> 3,
        accountNumber |-> <<"1", "1", "1", "1", "1", "-", "2">>,
        accountType |-> "BUSINESS", balance |-> 50000,
        customerCpf |-> <<"1", "1", "1", ".", "2", "2", "2", ".", "3", "3", "3", "-", "4", "4">>,
        businessCnpj |-> Undefined] >>

demoInvestments ==
    << [id |-> 1, accountId |-> 1], [id |-> 2, accountId |-> 1],
       [id |-> 3, accountId |-> 2] >>

\* failAt names the save that throws, if any
generateDemoData(failAt) ==
    /\ lsAccounts' = IF failAt = "accounts" THEN lsAccounts ELSE demoAccounts
    /\ lsInvestments' = IF failAt = "none" THEN demoInvestments ELSE lsInvestments
    /\ result' = IF failAt = "none"
                 THEN [success |-> TRUE, kind |-> "demo"]
                 ELSE Rejected("storage")
    /\ lastOp' = "generateDemoData"
    /\ UNCHANGED <<nextId, edits>>
    /\ UNCHANGED <<cacheVars, fnVars>>
    /\ UNCHANGED hookVars
    /\ UNCHANGED tabVars

\* StorageService on the raw localStorage items. An item is absent, holds
\* text JSON.parse rejects ("corrupt"), holds JSON that is no array
\* ("notArray"), or holds the JSON of a collection ("json").
ItemKinds == {"absent", "corrupt", "notArray", "json"}
jsonItem(collection) == [kind |-> "json", value |-> collection]

\* StorageService.getAccounts / getInvestments: null gives [], and a throw of
\* JSON.parse or of .map is caught and gives [] as well
getAccounts(item) ==
    [threw |-> FALSE,
     value |-> IF item.kind = "absent" THEN <<>>
               ELSE IF item.kind \in {"corrupt", "notArray"} THEN <<>>
               ELSE item.value]

getInvestments(item) ==
    [threw |-> FALSE,
     value |-> IF item.kind = "absent" THEN <<>>
               ELSE IF item.kind \in {"corrupt", "notArray"} THEN <<>>
               ELSE item.value]

saveAccounts_truncating(item, accounts, writeOk) ==
    IF writeOk THEN [threw |-> FALSE, item |-> jsonItem(accounts)]
    ELSE [threw |-> TRUE, item |-> jsonItem(<<>>)]

\* StorageService.saveAccounts / saveInvestments: setItem either stores the
\* whole text or throws and stores nothing; the catch rethrows
saveAccounts(item, accounts, writeOk) ==
    IF writeOk THEN [threw |-> FALSE, item |-> jsonItem(accounts)]
    ELSE [threw |-> TRUE, item |-> item]

saveInvestments(item, investments, writeOk) ==
    IF writeOk THEN [threw |-> FALSE, item |-> jsonItem(investments)]
    ELSE [threw |-> TRUE, item |-> item]

AccountCollections == {<<>>, SubSeq(demoAccounts, 1, 1), SubSeq(demoAccounts, 1, 2)}
InvestmentCollections == {<<>>, SubSeq(demoInvestments, 1, 1), demoInvestments}

GetAccounts ==
    /\ result' = getAccounts(localStorage.accounts)
    /\ fnIn' = <<>>
    /\ lastOp' = "getAccounts"
    /\ UNCHANGED <<localStorage, calls, fnOut>>
    /\ UNCHANGED <<lsAccounts, lsInvestments, nextId, edits>>
    /\ UNCHANGED cacheVars
    /\ UNCHANGED hookVars

GetInvestments ==
    /\ result' = getInvestments(localStorage.investments)
    /\ fnIn' = <<>>
    /\ lastOp' = "getInvestments"
    /\ UNCHANGED <<localStorage, calls, fnOut>>
    /\ UNCHANGED <<lsAccounts, lsInvestments, nextId, edits>>
    /\ UNCHANGED cacheVars
    /\ UNCHANGED hookVars

SaveAccounts(accounts, writeOk) ==
    /\ \E eff \in {saveAccounts(localStorage.accounts, accounts, writeOk)} :
          /\ localStorage' = [localStorage EXCEPT !.accounts = eff.item]
          /\ result' = [threw |-> eff.threw, value |-> <<>>]
    /\ fnIn' = [collection |-> accounts, writeOk |-> writeOk]
    /\ lastOp' = "saveAccounts"
    /\ UNCHANGED <<calls, fnOut>>
    /\ UNCHANGED <<lsAccounts, lsInvestments, nextId, edits>>
    /\ UNCHANGED cacheVars
    /\ UNCHANGED hookVars

SaveInvestments(investments, writeOk) ==
    /\ \E eff \in {saveInvestments(localStorage.investments, investments, writeOk)} :
          /\ localStorage' = [localStorage EXCEPT !.investments = eff.item]
          /\ result' = [threw |-> eff.threw, value |-> <<>>]
    /\ fnIn' = [collection |-> investments, writeOk |-> writeOk]
    /\ lastOp' = "saveInvestments"
    /\ UNCHANGED <<calls, fnOut>>
    /\ UNCHANGED <<lsAccounts, lsInvestments, nextId, edits>>
    /\ UNCHANGED cacheVars
    /\ UNCHANGED hookVars

\* Something outside StorageService removes an item or overwrites it with
\* text that is not the JSON of a collection
Tamper(key, kind) ==
    /\ localStorage' = [localStorage EXCEPT ![key] = [kind |-> kind, value |-> <<>>]]
    /\ result' = [threw |-> FALSE, value |-> <<>>]
    /\ fnIn' = <<>>
    /\ lastOp' = "tamper"
    /\ UNCHANGED <<calls, fnOut>>
    /\ UNCHANGED <<lsAccounts, lsInvestments, nextId, edits>>
    /\ UNCHANGED cacheVars
    /\ UNCHANGED hookVars

InitStorage == InitRest

NextStorage ==
    \/ GetAccounts
    \/ GetInvestments
    \/ \E accounts \in AccountCollections, writeOk \in BOOLEAN :
          SaveAccounts(accounts, writeOk)
    \/ \E investments \in InvestmentCollections, writeOk \in BOOLEAN :
          SaveInvestments(investments, writeOk)
    \/ \E key \in {"accounts", "investments"},
          kind \in {"absent", "corrupt", "notArray"} : Tamper(key, kind)

SpecStorage == InitStorage /\ [][NextStorage]_vars

InitAccounts == InitRest

\* Account creation and the demo data
NextAccounts ==
    \/ \E command \in Commands, clock \in CreateClocks, rnd \in CreateRandoms,
          writeOk \in BOOLEAN : createAccount(command, clock, rnd, writeOk)
    \/ \E failAt \in {"none", "accounts", "investments"} : generateDemoData(failAt)

SpecAccounts == InitAccounts /\ [][NextAccounts]_vars

\* Personal accounts created and then edited on the EditAccount page
NextEdit ==
    \/ \E command \in PersonalCommands, clock \in CreateClocks,
          rnd \in CreateRandoms, writeOk \in BOOLEAN :
          createAccount(command, clock, rnd, writeOk)
    \/ \E i \in 1..MaxAccounts, formData \in EditForms, writeOk \in BOOLEAN :
          EditAccountSave(i, formData, writeOk)

SpecEdit == InitAccounts /\ [][NextEdit]_vars

----------------------------------------------------------------------------
(* The NewAccount page: submitAccount hands the form values to             *)
(* AccountService.createAccount                                            *)

\* Form values with name, email and phone well-formed; the page starts with
\* balance 0
NewAccountValues ==
    [customerCpf : {CpfA, CpfAFormatted, CpfB}, accountType : AccountTypes,
     balance : {0, 50, 100}, isBusinessAccount : {FALSE},
     businessCnpj : {<<>>}]
      \cup [customerCpf : {CpfA, CpfB}, accountType : {"BUSINESS"},
            balance : {0, 50, 100}, isBusinessAccount : {TRUE},
            businessCnpj : {CnpjA, CnpjBad}]

submitAccount(values, clock, rnd, writeOk) ==
    /\ nextId < MaxAccounts
    /\ \E eff \in {createAccountEffect(values, lsAccounts, 100 + nextId,
                                        clock, rnd, writeOk)} :
          /\ lsAccounts' = eff.stored
          /\ result' = eff.result
          /\ nextId' = IF eff.result.success THEN nextId + 1 ELSE nextId
    /\ fnIn' = values
    /\ lastOp' = "submitAccount"
    /\ UNCHANGED <<lsInvestments, edits, fnOut>>
    /\ UNCHANGED cacheVars
    /\ UNCHANGED hookVars
    /\ UNCHANGED tabVars

InitNewAccount == InitRest

NextNewAccount ==
    \E values \in NewAccountValues, clock \in CreateClocks,
       rnd \in CreateRandoms, writeOk \in BOOLEAN :
        submitAccount(values, clock, rnd, writeOk)

SpecNewAccount == InitNewAccount /\ [][NextNewAccount]_vars

----------------------------------------------------------------------------
(* AccountService.updateBalance, with the stored JSON round trip it makes  *)

\* The number values that are no integer: NaN, and the null that
\* JSON.stringify writes for NaN
NaN == 0 - 2147483647
JsonNullNumber == 0 - 2147483646

\* a < b on JavaScript numbers: false whenever an operand is NaN
jsLessThan(a, b) == a # NaN /\ b # NaN /\ a < b

\* Date values and what JSON holds for them: a field that is missing, null,
\* or the ISO text of a time
UndefinedDate == [kind |-> "undefined", t |-> 0]
InvalidDate == [kind |-> "invalid", t |-> 0]
JsonNullDate == [kind |-> "null", t |-> 0]
dateAt(t) == [kind |-> "time", t |-> t]

\* new Date(v): Invalid Date for undefined, the epoch for null
newDate(v) ==
    CASE v.kind = "undefined" -> InvalidDate
      [] v.kind = "null" -> dateAt(0)
      [] OTHER -> v

\* Date.prototype.toJSON: null for an Invalid Date
dateToJSON(d) == IF d.kind = "invalid" THEN JsonNullDate ELSE d

\* JSON.stringify of a number: null for NaN
numberToJSON(n) == IF n = NaN THEN JsonNullNumber ELSE n

setField(a, name, v) ==
    [f \in DOMAIN a \cup {name} |-> IF f = name THEN v ELSE a[f]]

storedUpdatedAt(a) ==
    IF "updatedAt" \in DOMAIN a THEN a.updatedAt ELSE UndefinedDate

\* the map of StorageService.getAccounts: updatedAt: new Date(account.updatedAt)
reviveAccount(a) == setField(a, "updatedAt", newDate(storedUpdatedAt(a)))

\* JSON.stringify of one account in StorageService.saveAccounts
stringifyAccount(a) ==
    [a EXCEPT !.updatedAt = dateToJSON(@), !.balance = numberToJSON(@)]

\* AccountService.updateBalance: the result and the collection left in storage
updateBalanceEffect(accountId, newBalance, stored, clock, writeOk) ==
    LET accounts == [i \in 1..Len(stored) |-> reviveAccount(stored[i])]
        found == {i \in 1..Len(accounts) : accounts[i].id = accountId}
    IN IF found = {}
       THEN [result |-> Rejected("notFound"), stored |-> stored]
       ELSE IF jsLessThan(newBalance, 0)
       THEN [result |-> Rejected("negative"), stored |-> stored]
       ELSE IF ~writeOk
       THEN [result |-> Rejected("storage"), stored |-> stored]
       ELSE LET accountIndex == CHOOSE i \in found : \A j \in found : i <= j
            IN [result |-> [success |-> TRUE, kind |-> "updated"],
                stored |-> [i \in 1..Len(accounts) |->
                    stringifyAccount(
                        IF i = accountIndex
                        THEN [accounts[i] EXCEPT !.balance = newBalance,
                                                 !.updatedAt = dateAt(clock)]
                        ELSE accounts[i])]]

\* Arguments of updateBalance: stored ids and one that is not, and balances
\* on both sides of 0
UpdateIds == {100, 101, 999}
NewBalances == {0 - 5, 70, NaN}
UpdateClocks == {1700123999}

updateBalance(accountId, newBalance, clock, writeOk) ==
    /\ \E eff \in {updateBalanceEffect(accountId, newBalance, lsAccounts,
                                        clock, writeOk)} :
          /\ lsAccounts' = eff.stored
          /\ result' = eff.result
    /\ fnIn' = [accountId |-> accountId, newBalance |-> newBalance,
                clock |-> clock]
    /\ lastOp' = "updateBalance"
    /\ UNCHANGED <<lsInvestments, nextId, edits, fnOut>>
    /\ UNCHANGED cacheVars
    /\ UNCHANGED hookVars
    /\ UNCHANGED tabVars

\* Commands and forms for the accounts whose balance is then changed
BalanceCommands ==
    [customerCpf : {CpfA, CpfB}, accountType : {"SAVINGS"},
     balance : {0 - 5, 50}, isBusinessAccount : {FALSE},
     businessCnpj : {<<>>}]

BalanceForms ==
    [customerCpf : {CpfA}, accountType : {"SAVINGS"},
     balance : BalanceStrings]

InitBalance == InitRest

NextBalance ==
    \/ \E command \in BalanceCommands, clock \in CreateClocks,
          rnd \in CreateRandoms, writeOk \in BOOLEAN :
          createAccount(command, clock, rnd, writeOk)
    \/ \E accountId \in UpdateIds, newBalance \in NewBalances,
          clock \in UpdateClocks, writeOk \in BOOLEAN :
          updateBalance(accountId, newBalance, clock, writeOk)
    \/ \E i \in 1..MaxAccounts, formData \in BalanceForms, writeOk \in BOOLEAN :
          EditAccountSave(i, formData, writeOk)

SpecBalance == InitBalance /\ [][NextBalance]_vars

----------------------------------------------------------------------------
(* Deleting an account: StorageService.removeAccount, the account-detail   *)
(* page and the account-list page                                          *)

withoutAccount(accounts, accountId) ==
    SelectSeq(accounts, LAMBDA acc : acc.id # accountId)

withoutInvestmentsOf(investments, accountId) ==
    SelectSeq(investments, LAMBDA inv : inv.accountId # accountId)

\* StorageService.removeAccount(accountId); failAt names the save that
\* throws, if any, and ends the method there
removeAccount(accountId, failAt) ==
    /\ lsAccounts' = IF failAt = "accounts" THEN lsAccounts
                     ELSE withoutAccount(lsAccounts, accountId)
    /\ lsInvestments' = IF failAt = "none"
                        THEN withoutInvestmentsOf(lsInvestments, accountId)
                        ELSE lsInvestments
    /\ result' = IF failAt = "none"
                 THEN [success |-> TRUE, kind |-> "removed"]
                 ELSE Rejected("storage")
    /\ fnIn' = [accountId |-> accountId]
    /\ lastOp' = "removeAccount"
    /\ UNCHANGED <<nextId, edits, fnOut>>
    /\ UNCHANGED cacheVars
    /\ UNCHANGED hookVars
    /\ UNCHANGED tabVars

\* AccountDetail.handleDeleteConfirm on the account the page shows
AccountDetailDelete(i, failAt) ==
    /\ i \in 1..Len(lsAccounts)
    /\ lsAccounts' = IF failAt = "accounts" THEN lsAccounts
                     ELSE withoutAccount(lsAccounts, lsAccounts[i].id)
    /\ lsInvestments' = IF failAt = "none"
                        THEN withoutInvestmentsOf(lsInvestments, lsAccounts[i].id)
                        ELSE lsInvestments
    /\ result' = IF failAt = "none"
                 THEN [success |-> TRUE, kind |-> "removed"]
                 ELSE Rejected("storage")
    /\ fnIn' = [accountId |-> lsAccounts[i].id]
    /\ lastOp' = "AccountDetail.delete"
    /\ UNCHANGED <<nextId, edits, fnOut>>
    /\ UNCHANGED cacheVars
    /\ UNCHANGED hookVars
    /\ UNCHANGED tabVars

\* Accounts.handleDeleteConfirm on a row of the list: only the accounts are
\* saved
AccountsListDelete(i, writeOk) ==
    /\ i \in 1..Len(lsAccounts)
    /\ lsAccounts' = IF writeOk THEN withoutAccount(lsAccounts, lsAccounts[i].id)
                     ELSE lsAccounts
    /\ result' = IF writeOk THEN [success |-> TRUE, kind |-> "removed"]
                 ELSE Rejected("storage")
    /\ fnIn' = [accountId |-> lsAccounts[i].id]
    /\ lastOp' = "Accounts.delete"
    /\ UNCHANGED <<lsInvestments, nextId, edits, fnOut>>
    /\ UNCHANGED cacheVars
    /\ UNCHANGED hookVars
    /\ UNCHANGED tabVars

InitDelete == InitRest

NextDelete ==
    \/ \E failAt \in {"none", "accounts", "investments"} : generateDemoData(failAt)
    \/ \E accountId \in {1, 2, 3}, failAt \in {"none", "accounts", "investments"} :
          removeAccount(accountId, failAt)
    \/ \E i \in 1..3, failAt \in {"none", "accounts", "investments"} :
          AccountDetailDelete(i, failAt)
    \/ \E i \in 1..3, writeOk \in BOOLEAN : AccountsListDelete(i, writeOk)

SpecDelete == InitDelete /\ [][NextDelete]_vars

----------------------------------------------------------------------------
(* useForm: the hook behind the new-account form. handleSubmit validates,  *)
(* and awaits onSubmit between setIsSubmitting(true) and, in its finally,  *)
(* setIsSubmitting(false). Nothing keeps handleSubmit from being called    *)
(* again while an earlier onSubmit is still pending.                       *)

\* what the user can type into the fields the schema checks
FormFields == {"customerCpf", "balance"}
FieldInputs(field) ==
    IF field = "customerCpf" THEN {CpfA, CpfBad} ELSE {0, 50}

\* the two copies of the hook
HookCopies == {"part_001", "part_002"}

\* handleChange: the field takes the value and its error is cleared (the
\* delayed validateField of part_001 only writes errors and is left out)
handleChange(field, value) ==
    /\ form' = [form EXCEPT !.values = [@ EXCEPT ![field] = value],
                            !.errors = @ \ {field}]
    /\ lastOp' = "handleChange"
    /\ UNCHANGED timers
    /\ UNCHANGED <<accountVars, fnVars>>
    /\ UNCHANGED cacheVars
    /\ UNCHANGED tabVars

\* validateForm: the schema's errors are stored, and it answers whether
\* there are none
validateForm_errors(values) == validateSchema(values)

\* handleSubmit up to its await: with errors it returns, otherwise it sets
\* isSubmitting and calls onSubmit(values), whose promise is then pending
handleSubmit ==
    /\ form.pending < MaxPending
    /\ LET validationErrors == validateForm_errors(form.values)
       IN  form' = IF validationErrors # {}
                     THEN [form EXCEPT !.errors = validationErrors]
                     ELSE [form EXCEPT !.errors = {},
                                       !.isSubmitting = TRUE,
                                       !.pending = @ + 1]
    /\ fnIn' = form.values
    /\ lastOp' = "handleSubmit"
    /\ UNCHANGED <<timers, fnOut>>
    /\ UNCHANGED accountVars
    /\ UNCHANGED cacheVars
    /\ UNCHANGED tabVars

\* the rest of handleSubmit once onSubmit has resolved or thrown: the catch
\* logs (and in part_001 throws again), the finally runs in both cases
settle_noFinally(outcome, copy) ==
    [isSubmitting |-> outcome = "thrown",
     rejected |-> outcome = "thrown" /\ copy = "part_001"]

settle(outcome, copy) ==
    [isSubmitting |-> FALSE,
     rejected |-> outcome = "thrown" /\ copy = "part_001"]

onSubmitSettled(outcome, copy) ==
    /\ form.pending > 0
    /\ \E s \in {settle(outcome, copy)} :
          /\ form' = [form EXCEPT !.pending = @ - 1,
                                  !.isSubmitting = s.isSubmitting]
          /\ result' = [success |-> ~s.rejected, kind |-> outcome]
    /\ lastOp' = "onSubmitSettled"
    /\ UNCHANGED <<timers, lsAccounts, lsInvestments, nextId, edits>>
    /\ UNCHANGED fnVars
    /\ UNCHANGED cacheVars
    /\ UNCHANGED tabVars

\* resetForm (part_001): back to the initial values, isSubmitting false
resetForm ==
    /\ form' = [form EXCEPT !.values = initialValues, !.errors = {},
                            !.isSubmitting = FALSE]
    /\ lastOp' = "resetForm"
    /\ UNCHANGED timers
    /\ UNCHANGED <<accountVars, fnVars>>
    /\ UNCHANGED cacheVars
    /\ UNCHANGED tabVars

InitForm == InitRest

NextForm ==
    \/ \E field \in FormFields :
          \E value \in FieldInputs(field) : handleChange(field, value)
    \/ handleSubmit
    \/ \E outcome \in {"resolved", "thrown"}, copy \in HookCopies :
          onSubmitSettled(outcome, copy)
    \/ resetForm

SpecForm == InitForm /\ [][NextForm]_vars

----------------------------------------------------------------------------
(* utils.debounce: one closure, as SearchField keeps in debouncedSearch.   *)
(* timers.queue is the environment's set of armed timers, timers.timeoutId *)
(* the closure's variable; timers.log lists, in order, the calls of the    *)
(* debounced function and the runs of func. A timer never fires before it  *)
(* is due, but it may fire late.                                           *)

\* the delay handed to debounce, in clock steps
Delay == 2

\* the arguments the debounced function is called with
SearchValues == {"a", "b"}

\* clearTimeout(id): the timer with that id, if still armed, is disarmed
clearTimeout_noop(queue, id) == queue

clearTimeout(queue, id) == {t \in queue : t.id # id}

\* setTimeout(() => func(...args), delay) at time clock, under a fresh id
setTimeout(queue, id, args, clock) ==
    queue \cup {[id |-> id, due |-> clock + Delay, args |-> args]}

\* the function debounce returns, called with args (handleInputChange calls
\* it with the text of the field)
debounced(args) ==
    /\ timers.issued < MaxCalls
    /\ LET id == timers.issued + 1
       IN  timers' =
             [timers EXCEPT
                !.queue = setTimeout(clearTimeout(@, timers.timeoutId), id,
                                     args, timers.clock),
                !.timeoutId = id,
                !.issued = id,
                !.log = Append(@, [kind |-> "call", at |-> timers.clock,
                                   args |-> args])]
    /\ lastOp' = "debounced"
    /\ UNCHANGED form
    /\ UNCHANGED <<accountVars, fnVars>>
    /\ UNCHANGED cacheVars
    /\ UNCHANGED tabVars

\* an armed timer whose time has come runs its callback: func(...args)
timerFires(t) ==
    /\ t \in timers.queue
    /\ t.due <= timers.clock
    /\ timers' = [timers EXCEPT
                    !.queue = @ \ {t},
                    !.log = Append(@, [kind |-> "run", at |-> timers.clock,
                                       args |-> t.args])]
    /\ lastOp' = "func"
    /\ UNCHANGED form
    /\ UNCHANGED <<accountVars, fnVars>>
    /\ UNCHANGED cacheVars
    /\ UNCHANGED tabVars

\* time passes
timePasses ==
    /\ timers.clock < MaxClock
    /\ timers' = [timers EXCEPT !.clock = @ + 1]
    /\ lastOp' = "timePasses"
    /\ UNCHANGED form
    /\ UNCHANGED <<accountVars, fnVars>>
    /\ UNCHANGED cacheVars
    /\ UNCHANGED tabVars

InitDebounce == InitRest

NextDebounce ==
    \/ \E args \in SearchValues : debounced(args)
    \/ \E t \in timers.queue : timerFires(t)
    \/ timePasses

SpecDebounce == InitDebounce /\ [][NextDebounce]_vars

----------------------------------------------------------------------------
(* createAccount step by step: an activation gives way to other code at    *)
(* each await, and each tab runs its own activation on the shared storage  *)

\* Personal commands that differ in CPF and category; CpfBad fails the schema
OverlapCommands ==
    [customerCpf : {CpfA, CpfB, CpfBad}, accountType : {"SAVINGS", "CHECKING"},
     balance : {50}, isBusinessAccount : {FALSE}, businessCnpj : {<<>>}]

\* Date.now() values, two of them with the same six low-order digits, and
\* Math.floor(Math.random() * 1000) values
OverlapClocks == {1700123456, 1800123456, 1700123457}
OverlapRandoms == {42, 43}

saveAccount_reread(existingAccounts, stored, account) == Append(stored, account)

\* AccountService.saveAccount after its await: the collection it writes is
\* built from existingAccounts, read before the await, whatever the storage
\* holds by now
saveAccount(existingAccounts, stored, account) == Append(existingAccounts, account)

\* createAccount up to its first await: validateAccountCreation
Begin(t, command) ==
    /\ calls[t].pc = "idle"
    /\ IF validateSchema(command) # {}
       THEN /\ calls' = [calls EXCEPT ![t] =
                            [pc |-> "done", command |-> command,
                             result |-> Rejected("validationErrors")]]
            /\ result' = Rejected("validationErrors")
       ELSE /\ calls' = [calls EXCEPT ![t] =
                            [pc |-> "validateBusinessRules", command |-> command]]
            /\ result' = result
    /\ lastOp' = "validateAccountCreation"
    /\ UNCHANGED <<lsAccounts, lsInvestments, nextId, edits, localStorage>>
    /\ UNCHANGED <<cacheVars, fnVars>>
    /\ UNCHANGED hookVars

\* validateBusinessRules: reads the stored accounts and tests the command
\* against what it read
CheckRules(t) ==
    /\ calls[t].pc = "validateBusinessRules"
    /\ \E rules \in {validateBusinessRules(calls[t].command, lsAccounts)} :
          IF rules # "ok"
          THEN /\ calls' = [calls EXCEPT ![t] =
                               [pc |-> "done", command |-> calls[t].command,
                                result |-> Rejected(rules)]]
               /\ result' = Rejected(rules)
          ELSE /\ calls' = [calls EXCEPT ![t] =
                               [pc |-> "saveAccount", command |-> calls[t].command]]
               /\ result' = result
    /\ lastOp' = "validateBusinessRules"
    /\ UNCHANGED <<lsAccounts, lsInvestments, nextId, edits, localStorage>>
    /\ UNCHANGED <<cacheVars, fnVars>>
    /\ UNCHANGED hookVars

\* generateAccountNumber, the new entity, and saveAccount up to its await:
\* the stored accounts are read into existingAccounts
ReadForSave(t, clock, rnd) ==
    /\ calls[t].pc = "saveAccount"
    /\ calls' = [calls EXCEPT ![t] =
                    [pc |-> "saveAccounts", command |-> calls[t].command,
                     clock |-> clock, rnd |-> rnd,
                     account |-> newAccount(calls[t].command, 100 + nextId,
                                    generateAccountNumber(
                                        calls[t].command.accountType, clock, rnd)),
                     existingAccounts |-> lsAccounts]]
    /\ nextId' = nextId + 1
    /\ lastOp' = "saveAccount"
    /\ UNCHANGED <<lsAccounts, lsInvestments, result, edits, localStorage>>
    /\ UNCHANGED <<cacheVars, fnVars>>
    /\ UNCHANGED hookVars

\* saveAccount after its await: StorageService.saveAccounts, and createAccount
\* returns
WriteSave(t, writeOk) ==
    /\ calls[t].pc = "saveAccounts"
    /\ lsAccounts' = IF writeOk
                     THEN saveAccount(calls[t].existingAccounts, lsAccounts,
                                      calls[t].account)
                     ELSE lsAccounts
    /\ result' = IF writeOk THEN Succeeded ELSE Rejected("storage")
    /\ calls' = [calls EXCEPT ![t] =
                    [pc |-> "done", command |-> calls[t].command,
                     clock |-> calls[t].clock, rnd |-> calls[t].rnd,
                     account |-> calls[t].account,
                     existingAccounts |-> calls[t].existingAccounts,
                     result |-> result']]
    /\ lastOp' = "saveAccounts"
    /\ UNCHANGED <<lsInvestments, nextId, edits, localStorage>>
    /\ UNCHANGED <<cacheVars, fnVars>>
    /\ UNCHANGED hookVars

InitOverlap == InitRest

NextOverlap ==
    \/ \E t \in Tabs, command \in OverlapCommands : Begin(t, command)
    \/ \E t \in Tabs : CheckRules(t)
    \/ \E t \in Tabs, clock \in OverlapClocks, rnd \in OverlapRandoms :
          ReadForSave(t, clock, rnd)
    \/ \E t \in Tabs, writeOk \in BOOLEAN : WriteSave(t, writeOk)

SpecOverlap == InitOverlap /\ [][NextOverlap]_vars

----------------------------------------------------------------------------
(* Pure functions, applied to inputs drawn at the start                    *)

\* Date.now() values (scaled to 32-bit integers; only the last six decimal
\* digits take part) and Math.floor(Math.random() * 1000) values
ClockValues == {1700000000, 1700000042, 1700123456, 1699999999, 2000100007}
RandomValues == {0, 7, 42, 100, 999}

GenInputs == [accountType : AccountTypes, clock : ClockValues, rnd : RandomValues]

InitGen ==
    /\ now = 0 /\ ticks = 0 /\ CACHE = EmptyCache
    /\ req = [c \in Calls |-> 0]
    /\ last = NoAnswer
    /\ lastOp = "init"
    /\ lsAccounts = <<>> /\ lsInvestments = <<>>
    /\ result = [success |-> TRUE, kind |-> "none"]
    /\ nextId = 0 /\ edits = 0
    /\ fnIn \in GenInputs /\ fnOut = <<>>
    /\ calls = NoCalls /\ localStorage = EmptyStorage
    /\ form = InitialForm /\ timers = NoTimers

Generate ==
    /\ lastOp = "init"
    /\ fnOut' = generateAccountNumber(fnIn.accountType, fnIn.clock, fnIn.rnd)
    /\ lastOp' = "generateAccountNumber"
    /\ UNCHANGED fnIn
    /\ UNCHANGED <<cacheVars, accountVars>>
    /\ UNCHANGED hookVars
    /\ UNCHANGED tabVars

NextGen == Generate

SpecGen == InitGen /\ [][NextGen]_vars

\* CPF strings: the two valid documents with one digit replaced, formatted
\* and mis-sized variants, and the repeated-digit strings
replaceAt(s, i, c) == [k \in 1..Len(s) |-> IF k = i THEN c ELSE s[k]]

CpfStrings ==
    {replaceAt(b, i, c) : b \in {CpfA, CpfB}, i \in 1..11, c \in Digits}
      \cup {[k \in 1..11 |-> c] : c \in Digits}
      \cup {CpfAFormatted, CpfBad, <<>>, <<"a">>,
            SubSeq(CpfA, 1, 10), CpfA \o <<"3">>, CpfAFormatted \o <<"5">>,
            <<" ">> \o CpfA, SubSeq(CpfAFormatted, 1, 11)}

InitCPF ==
    /\ now = 0 /\ ticks = 0 /\ CACHE = EmptyCache
    /\ req = [c \in Calls |-> 0]
    /\ last = NoAnswer
    /\ lastOp = "init"
    /\ lsAccounts = <<>> /\ lsInvestments = <<>>
    /\ result = [success |-> TRUE, kind |-> "none"]
    /\ nextId = 0 /\ edits = 0
    /\ fnIn \in CpfStrings /\ fnOut = <<>>
    /\ calls = NoCalls /\ localStorage = EmptyStorage
    /\ form = InitialForm /\ timers = NoTimers

ValidateCPF ==
    /\ lastOp = "init"
    /\ fnOut' = validateCPF(fnIn)
    /\ lastOp' = "validateCPF"
    /\ UNCHANGED fnIn
    /\ UNCHANGED <<cacheVars, accountVars>>
    /\ UNCHANGED hookVars
    /\ UNCHANGED tabVars

NextCPF == ValidateCPF

SpecCPF == InitCPF /\ [][NextCPF]_vars

\* the same string handed to the two copies of validateCPF and to
\* validators.cpf
ValidateCPFCopies ==
    /\ lastOp = "init"
    /\ fnOut' = [first |-> validateCPF_enhanced(fnIn),
                 second |-> validateCPF(fnIn),
                 util |-> validators_cpf(fnIn)]
    /\ lastOp' = "validateCPFCopies"
    /\ UNCHANGED fnIn
    /\ UNCHANGED <<cacheVars, accountVars>>
    /\ UNCHANGED hookVars
    /\ UNCHANGED tabVars

NextCPFCopies == ValidateCPFCopies

SpecCPFCopies == InitCPF /\ [][NextCPFCopies]_vars

\* CNPJ strings: three valid documents with one digit replaced, the
\* repeated-digit strings, formatted and mis-sized variants
CnpjB == <<"1", "1", "2", "2", "2", "3", "1", "3", "0", "0", "0", "1", "0", "0">>
CnpjC == <<"1", "1", "2", "2", "2", "0", "3", "3", "0", "0", "0", "1", "0", "0">>
CnpjAFormatted ==
    <<"1", "1", ".", "2", "2", "2", ".", "3", "3", "3", "/", "0", "0", "0", "1",
      "-", "8", "1">>

CnpjStrings ==
    {replaceAt(b, i, c) : b \in {CnpjA, CnpjB, CnpjC}, i \in 1..14, c \in Digits}
      \cup {[k \in 1..14 |-> c] : c \in Digits}
      \cup {CnpjAFormatted, CnpjBad, <<>>, <<"a">>, CpfA,
            SubSeq(CnpjA, 1, 13), CnpjA \o <<"1">>, CnpjAFormatted \o <<"0">>,
            <<" ">> \o CnpjA, SubSeq(CnpjAFormatted, 1, 14)}

InitCNPJ ==
    /\ now = 0 /\ ticks = 0 /\ CACHE = EmptyCache
    /\ req = [c \in Calls |-> 0]
    /\ last = NoAnswer
    /\ lastOp = "init"
    /\ lsAccounts = <<>> /\ lsInvestments = <<>>
    /\ result = [success |-> TRUE, kind |-> "none"]
    /\ nextId = 0 /\ edits = 0
    /\ fnIn \in CnpjStrings /\ fnOut = <<>>
    /\ calls = NoCalls /\ localStorage = EmptyStorage
    /\ form = InitialForm /\ timers = NoTimers

\* ValidationService.validateCNPJ and validators.cnpj on the same input
ValidateCNPJ ==
    /\ lastOp = "init"
    /\ fnOut' = [service |-> validateCNPJ(fnIn), util |-> validators_cnpj(fnIn)]
    /\ lastOp' = "validateCNPJ"
    /\ UNCHANGED fnIn
    /\ UNCHANGED <<cacheVars, accountVars>>
    /\ UNCHANGED hookVars
    /\ UNCHANGED tabVars

NextCNPJ == ValidateCNPJ

SpecCNPJ == InitCNPJ /\ [][NextCNPJ]_vars

\* Strings handed to the formatters and cleaners: well-sized digit strings,
\* formatted documents, partly typed, over-long and non-numeric input
FormatStrings ==
    {replaceAt(CpfA, i, c) : i \in {1, 4, 11}, c \in Digits}
      \cup {replaceAt(CnpjA, i, c) : i \in {1, 9, 14}, c \in Digits}
      \cup {CpfA, CpfB, CpfBad, CpfAFormatted, CnpjA, CnpjB, CnpjAFormatted,
            <<>>, <<"a">>, <<"1">>, <<"1", "2", "3">>,
            <<"1", "2", "3", ".", "4">>, <<"1", ".", "a", "-", "2">>,
            <<".", "-">>, SubSeq(CpfA, 1, 10), SubSeq(CpfAFormatted, 1, 13),
            CpfA \o <<"3">>, CpfAFormatted \o <<"5">>, SubSeq(CnpjA, 1, 13),
            CnpjA \o <<"1">>, CnpjAFormatted \o <<"0">>, <<" ">> \o CpfA,
            CnpjA \o <<"x">>}

InitFormat ==
    /\ now = 0 /\ ticks = 0 /\ CACHE = EmptyCache
    /\ req = [c \in Calls |-> 0]
    /\ last = NoAnswer
    /\ lastOp = "init"
    /\ lsAccounts = <<>> /\ lsInvestments = <<>>
    /\ result = [success |-> TRUE, kind |-> "none"]
    /\ nextId = 0 /\ edits = 0
    /\ fnIn \in FormatStrings /\ fnOut = <<>>
    /\ calls = NoCalls /\ localStorage = EmptyStorage
    /\ form = InitialForm /\ timers = NoTimers

\* formatters.cpf(value), and utils.cleanCPF of what it returned
FormatCPF ==
    /\ lastOp = "init"
    /\ fnOut' = [formatted |-> formatters_cpf(fnIn),
                 cleaned |-> cleanCPF(formatters_cpf(fnIn))]
    /\ lastOp' = "formatters.cpf"
    /\ UNCHANGED fnIn
    /\ UNCHANGED <<cacheVars, accountVars>>
    /\ UNCHANGED hookVars
    /\ UNCHANGED tabVars

\* formatters.cnpj(value), and utils.cleanCNPJ of what it returned
FormatCNPJ ==
    /\ lastOp = "init"
    /\ fnOut' = [formatted |-> formatters_cnpj(fnIn),
                 cleaned |-> cleanCNPJ(formatters_cnpj(fnIn))]
    /\ lastOp' = "formatters.cnpj"
    /\ UNCHANGED fnIn
    /\ UNCHANGED <<cacheVars, accountVars>>
    /\ UNCHANGED hookVars
    /\ UNCHANGED tabVars

\* a cleaner applied once and applied to its own result
CleanCPF ==
    /\ lastOp = "init"
    /\ fnOut' = [once |-> cleanCPF(fnIn), twice |-> cleanCPF(cleanCPF(fnIn))]
    /\ lastOp' = "cleanCPF"
    /\ UNCHANGED fnIn
    /\ UNCHANGED <<cacheVars, accountVars>>
    /\ UNCHANGED hookVars
    /\ UNCHANGED tabVars

CleanCNPJ ==
    /\ lastOp = "init"
    /\ fnOut' = [once |-> cleanCNPJ(fnIn), twice |-> cleanCNPJ(cleanCNPJ(fnIn))]
    /\ lastOp' = "cleanCNPJ"
    /\ UNCHANGED fnIn
    /\ UNCHANGED <<cacheVars, accountVars>>
    /\ UNCHANGED hookVars
    /\ UNCHANGED tabVars

SanitizeDocument ==
    /\ lastOp = "init"
    /\ fnOut' = [once |-> sanitizeDocument(fnIn),
                 twice |-> sanitizeDocument(sanitizeDocument(fnIn))]
    /\ lastOp' = "sanitizeDocument"
    /\ UNCHANGED fnIn
    /\ UNCHANGED <<cacheVars, accountVars>>
    /\ UNCHANGED hookVars
    /\ UNCHANGED tabVars

NextFormat ==
    \/ FormatCPF
    \/ FormatCNPJ
    \/ CleanCPF
    \/ CleanCNPJ
    \/ SanitizeDocument

SpecFormat == InitFormat /\ [][NextFormat]_vars

----------------------------------------------------------------------------
(* Claims about the stored accounts                                        *)
digitsOf(s) == SelectSeq(s, LAMBDA c : c \in Digits)

\* C4: createAccount rejects the command whenever an account already in
\* storage has the same CPF once non-digits are stripped, however the
\* submitted CPF is written; so a create that succeeded never follows a
\* stored account with the CPF of the account just added.
C4_DuplicateCpfRejected ==
    (lastOp = "createAccount" /\ result.success) =>
        \A i \in 1..(Len(lsAccounts) - 1) :
            digitsOf(lsAccounts[i].customerCpf)
                # digitsOf(lsAccounts[Len(lsAccounts)].customerCpf)

\* C5: after any sequence of createAccount calls and EditAccount saves no two
\* stored accounts have the same CPF once non-digits are stripped.
C5_CpfUnique ==
    \A i, j \in 1..Len(lsAccounts) :
        i # j => digitsOf(lsAccounts[i].customerCpf)
                    # digitsOf(lsAccounts[j].customerCpf)

\* C6: every stored customerCpf passes validateCPF and every stored
\* businessCnpj passes validateCNPJ.
C6_StoredDocumentsValid ==
    \A i \in 1..Len(lsAccounts) :
        /\ validateCPF(lsAccounts[i].customerCpf)
        /\ lsAccounts[i].businessCnpj # Undefined
              => validateCNPJ(lsAccounts[i].businessCnpj)

\* C7: whenever createAccount returns success = false the stored collections
\* are what they were before the call.
C7_RejectedCreateWritesNothing ==
    [][(lastOp' = "createAccount" /\ ~result'.success) =>
            /\ lsAccounts' = lsAccounts
            /\ lsInvestments' = lsInvestments]_vars

C7_Witness ==
    /\ lastOp = "createAccount"
    /\ ~result.success
    /\ result.kind = "duplicateCnpj"
    /\ Len(lsAccounts) = 1

----------------------------------------------------------------------------
(* Claims about account numbers and CPF validation                         *)
claimCheckDigit(body) ==
    LET sum == DigitVal(body[1]) * 2 + DigitVal(body[2]) * 3
                 + DigitVal(body[3]) * 4 + DigitVal(body[4]) * 5
                 + DigitVal(body[5]) * 6 + DigitVal(body[6]) * 7
                 + DigitVal(body[7]) * 8 + DigitVal(body[8]) * 9
                 + DigitVal(body[9]) * 2 + DigitVal(body[10]) * 3
                 + DigitVal(body[11]) * 4
        remainder == sum % 11
    IN IF remainder < 2 THEN 0 ELSE 11 - remainder

claimPrefix ==
    [SAVINGS |-> <<"1", "0">>, CHECKING |-> <<"2", "0">>, BUSINESS |-> <<"3", "0">>]

\* C9: for each account type, clock and random value the generated number is
\* the two-digit prefix of the type, the low-order six decimal digits of the
\* clock, the random number zero-padded to three digits, '-', one digit.
C9_NumberShape ==
    lastOp = "generateAccountNumber" =>
        /\ Len(fnOut) = 13
        /\ SubSeq(fnOut, 1, 2) = claimPrefix[fnIn.accountType]
        /\ \A i \in 3..11 : fnOut[i] \in Digits
        /\ digitsValue(SubSeq(fnOut, 3, 8)) = fnIn.clock % 1000000
        /\ digitsValue(SubSeq(fnOut, 9, 11)) = fnIn.rnd
        /\ fnOut[12] = "-"
        /\ fnOut[13] \in Digits

C9_Witness ==
    /\ lastOp = "generateAccountNumber"
    /\ fnIn.rnd = 7
    /\ fnIn.clock % 1000000 = 42
    /\ SubSeq(fnOut, 3, 11) = <<"0", "0", "0", "0", "4", "2", "0", "0", "7">>

claimCpfDigit(d, n, top) ==
    LET W[i \in 0..n] == IF i = 0 THEN 0 ELSE W[i - 1] + DigitVal(d[i]) * (top + 1 - i)
        r == (W[n] * 10) % 11
    IN IF r >= 10 THEN 0 ELSE r

claimValidCpf(s) ==
    LET d == digitsOf(s)
    IN /\ Len(d) = 11
       /\ \E i \in 2..11 : d[i] # d[1]
       /\ DigitVal(d[10]) = claimCpfDigit(d, 9, 10)
       /\ DigitVal(d[11]) = claimCpfDigit(d, 10, 11)

AllOnes == [k \in 1..11 |-> "1"]

\* C10: validateCPF is true exactly when the input has 11 digits, not all the
\* same, whose 10th digit is the check digit of the first nine (weights
\* 10..2, (sum * 10) mod 11, 10 or 11 read as 0) and whose 11th is the check
\* digit of the first ten (weights 11..2); 11144477735 passes, 11111111111
\* does not.
C10_ValidateCpf ==
    lastOp = "validateCPF" =>
        /\ fnOut <=> claimValidCpf(fnIn)
        /\ fnIn = CpfA => fnOut
        /\ fnIn = AllOnes => ~fnOut
        /\ Len(digitsOf(fnIn)) # 11 => ~fnOut

C10_Witness ==
    /\ lastOp = "validateCPF"
    /\ fnIn = replaceAt(CpfA, 10, "4")
    /\ ~fnOut

claimCnpjDigit(d, weights) ==
    LET W[i \in 0..Len(weights)] ==
            IF i = 0 THEN 0 ELSE W[i - 1] + DigitVal(d[i]) * weights[i]
        r == W[Len(weights)] % 11
    IN IF r < 2 THEN 0 ELSE 11 - r

claimValidCnpj(s) ==
    LET d == digitsOf(s)
    IN /\ Len(d) = 14
       /\ \E i \in 2..14 : d[i] # d[1]
       /\ DigitVal(d[13]) = claimCnpjDigit(d, <<5, 4, 3, 2, 9, 8, 7, 6, 5, 4, 3, 2>>)
       /\ DigitVal(d[14]) = claimCnpjDigit(d, <<6, 5, 4, 3, 2, 9, 8, 7, 6, 5, 4, 3, 2>>)

\* C11: validateCNPJ (and validators.cnpj) is true exactly when the input has
\* 14 digits, not all the same, whose 13th digit is the check digit of the
\* first twelve under weights 5,4,3,2,9,8,7,6,5,4,3,2 and whose 14th is the
\* check digit of the first thirteen under weights 6,5,4,3,2,9,8,7,6,5,4,3,2
\* (0 when sum mod 11 < 2, else 11 - sum mod 11); 11222333000181 passes and
\* fails once its last digit is replaced by any other digit.
C11_ValidateCnpj ==
    lastOp = "validateCNPJ" =>
        /\ fnOut.service <=> claimValidCnpj(fnIn)
        /\ fnOut.util <=> claimValidCnpj(fnIn)
        /\ fnIn = CnpjA => fnOut.service
        /\ (\E c \in Digits \ {"1"} : fnIn = replaceAt(CnpjA, 14, c))
              => ~fnOut.service
        /\ Len(digitsOf(fnIn)) # 14 => ~fnOut.service

C11_Witness ==
    /\ lastOp = "validateCNPJ"
    /\ fnIn = CnpjB
    /\ fnOut.service /\ fnOut.util

----------------------------------------------------------------------------
(* Claims about the formatters and cleaners                                *)
allDigits(s) == \A i \in 1..Len(s) : s[i] \in Digits

\* C12: for every string of exactly 11 digits cleanCPF(formatters.cpf(d)) = d
\* and for every string of exactly 14 digits cleanCNPJ(formatters.cnpj(d)) = d,
\* the formatted text being DDD.DDD.DDD-DD and DD.DDD.DDD/DDDD-DD.
C12_RoundTrip ==
    /\ (lastOp = "formatters.cpf" /\ allDigits(fnIn) /\ Len(fnIn) = 11) =>
            /\ fnOut.cleaned = fnIn
            /\ Len(fnOut.formatted) = 14
            /\ fnOut.formatted[4] = "." /\ fnOut.formatted[8] = "."
            /\ fnOut.formatted[12] = "-"
    /\ (lastOp = "formatters.cnpj" /\ allDigits(fnIn) /\ Len(fnIn) = 14) =>
            /\ fnOut.cleaned = fnIn
            /\ Len(fnOut.formatted) = 18
            /\ fnOut.formatted[3] = "." /\ fnOut.formatted[7] = "."
            /\ fnOut.formatted[11] = "/" /\ fnOut.formatted[16] = "-"

C12_Witness ==
    /\ lastOp = "formatters.cnpj"
    /\ fnIn = CnpjA
    /\ fnOut.formatted = CnpjAFormatted
    /\ fnOut.cleaned = CnpjA

\* C13: stripping non-digits twice gives what stripping once gives, for
\* cleanCPF, cleanCNPJ and sanitizeDocument, and the empty string gives the
\* empty string.
C13_CleanIdempotent ==
    lastOp \in {"cleanCPF", "cleanCNPJ", "sanitizeDocument"} =>
        /\ fnOut.twice = fnOut.once
        /\ allDigits(fnOut.once)
        /\ fnIn = <<>> => fnOut.once = <<>>

C13_Witness ==
    /\ lastOp = "sanitizeDocument"
    /\ fnIn = CnpjAFormatted
    /\ fnOut.once = CnpjA
    /\ fnOut.twice = CnpjA

\* C14: formatters.cpf returns its input unchanged whenever the input does
\* not contain exactly 11 digits, and formatters.cnpj whenever the input does
\* not contain exactly 14 digits.
C14_FormatNoOp ==
    /\ (lastOp = "formatters.cpf" /\ Len(digitsOf(fnIn)) # 11) =>
            fnOut.formatted = fnIn
    /\ (lastOp = "formatters.cnpj" /\ Len(digitsOf(fnIn)) # 14) =>
            fnOut.formatted = fnIn

----------------------------------------------------------------------------
(* Claims about StorageService                                             *)

\* C17: getAccounts and getInvestments never throw and return an empty array
\* when the stored item is absent or cannot be parsed (the stored collection
\* otherwise), leaving storage alone; saveAccounts and saveInvestments throw
\* exactly when the write fails and then leave the stored item as it was.
C17_StorageErrors ==
    [][/\ lastOp' \in {"getAccounts", "getInvestments"} =>
            LET item == IF lastOp' = "getAccounts" THEN localStorage.accounts
                        ELSE localStorage.investments
            IN /\ ~result'.threw
               /\ item.kind # "json" => result'.value = <<>>
               /\ item.kind = "json" => result'.value = item.value
               /\ localStorage' = localStorage
       /\ lastOp' \in {"saveAccounts", "saveInvestments"} =>
            LET key == IF lastOp' = "saveAccounts" THEN "accounts" ELSE "investments"
            IN /\ result'.threw <=> ~fnIn'.writeOk
               /\ result'.threw => localStorage' = localStorage
               /\ ~result'.threw =>
                     localStorage' = [localStorage EXCEPT
                                        ![key] = [kind |-> "json",
                                                  value |-> fnIn'.collection]]]_vars

C17_Witness ==
    /\ lastOp = "saveAccounts"
    /\ result.threw
    /\ localStorage.accounts.kind = "json"
    /\ Len(localStorage.accounts.value) = 2
    /\ Len(fnIn.collection) = 1
    /\ localStorage.investments.kind = "corrupt"

----------------------------------------------------------------------------
(* Claims about overlapping createAccount calls                            *)
returnedSuccess(t) ==
    /\ calls[t].pc = "done"
    /\ calls[t].result.success

\* C19: the write at the end of createAccount stores the collection read
\* before the await plus the new account, so an account another call stored
\* in between disappears while both calls return success.
C19_LostUpdate ==
    [][lastOp' = "saveAccounts" /\ result'.success =>
          \E t \in Tabs :
              /\ calls[t].pc = "saveAccounts"
              /\ calls'[t].pc = "done"
              /\ lsAccounts' = Append(calls[t].existingAccounts, calls[t].account)
              /\ \A i \in 1..Len(lsAccounts) :
                    (\A j \in 1..Len(calls[t].existingAccounts) :
                        calls[t].existingAccounts[j] # lsAccounts[i])
                    => \A k \in 1..Len(lsAccounts') : lsAccounts'[k] # lsAccounts[i]]_vars

C19_Witness ==
    /\ \A t \in Tabs : returnedSuccess(t)
    /\ digitsOf(calls[1].command.customerCpf) # digitsOf(calls[2].command.customerCpf)
    /\ Len(lsAccounts) = 1

\* C20: two createAccount calls of the same category that draw the same
\* random number at clock values with the same six low-order digits build the
\* same account number, and nothing rejects the second one for it.
C20_NumberCollision ==
    /\ \A t \in Tabs :
          (calls[t].pc = "done" /\ ~calls[t].result.success) =>
              calls[t].result.kind \in
                  {"validationErrors", "duplicateCpf", "duplicateCnpj",
                   "minBalance", "storage"}
    /\ \A t, u \in Tabs :
        (/\ t # u
         /\ returnedSuccess(t) /\ returnedSuccess(u)
         /\ calls[t].command.accountType = calls[u].command.accountType
         /\ calls[t].clock % 1000000 = calls[u].clock % 1000000
         /\ calls[t].rnd = calls[u].rnd)
        => calls[t].account.accountNumber = calls[u].account.accountNumber

C20_Witness ==
    /\ Len(lsAccounts) = 2
    /\ lsAccounts[1].accountNumber = lsAccounts[2].accountNumber
    /\ lsAccounts[1].customerCpf # lsAccounts[2].customerCpf
    /\ \A t \in Tabs : returnedSuccess(t)
    /\ calls[1].clock # calls[2].clock

----------------------------------------------------------------------------
(* Claims about createAccount as the NewAccount page calls it              *)
storedCpf(accounts, cpf) ==
    \E i \in 1..Len(accounts) : digitsOf(accounts[i].customerCpf) = digitsOf(cpf)

\* C21: createAccount with balance 0 for a SAVINGS or CHECKING account, a
\* valid CPF that no stored account has, and a storage that accepts the write
\* returns success and stores the account.
C21_ZeroBalanceAccepted ==
    [][(/\ lastOp' = "submitAccount"
        /\ fnIn'.balance = 0
        /\ fnIn'.accountType \in {"SAVINGS", "CHECKING"}
        /\ ~fnIn'.isBusinessAccount
        /\ claimValidCpf(fnIn'.customerCpf)
        /\ ~storedCpf(lsAccounts, fnIn'.customerCpf)
        /\ result'.kind # "storage")
       => /\ result'.success
          /\ Len(lsAccounts') = Len(lsAccounts) + 1
          /\ lsAccounts'[Len(lsAccounts')].balance = 0]_vars

\* C22: every createAccount call resolves to a result: success with the
\* created account stored, or success = false with validationErrors or an
\* error message; a failing write is reported this way too and never thrown.
C22_NeverThrows ==
    lastOp = "submitAccount" =>
        /\ result.kind \in {"created", "validationErrors", "duplicateCpf",
                             "duplicateCnpj", "minBalance", "storage"}
        /\ result.success <=> result.kind = "created"
        /\ result.success =>
              /\ Len(lsAccounts) >= 1
              /\ lsAccounts[Len(lsAccounts)].customerCpf = digitsOf(fnIn.customerCpf)

C22_Witness ==
    /\ lastOp = "submitAccount"
    /\ result.kind = "storage"
    /\ ~result.success
    /\ Len(lsAccounts) = 1
    /\ ~storedCpf(lsAccounts, fnIn.customerCpf)

----------------------------------------------------------------------------
(* Claims about balances                                                   *)

\* C23: after any sequence of createAccount, updateBalance and EditAccount
\* saves every stored account has a balance that is a number >= 0.
C23_BalanceNonNegative ==
    \A i \in 1..Len(lsAccounts) :
        /\ lsAccounts[i].balance \notin {NaN, JsonNullNumber}
        /\ lsAccounts[i].balance >= 0

otherAccountsKept(before, after, accountId) ==
    /\ Len(after) = Len(before)
    /\ \A i \in 1..Len(before) :
          before[i].id # accountId => after[i] = before[i]

\* C24: updateBalance returns success = false for an id that is not stored
\* and for a negative balance and then leaves the stored collection as it
\* was; on success it changes only balance and updatedAt of the target
\* account, every other stored account staying as it was.
C24_UpdateBalance ==
    [][lastOp' = "updateBalance" =>
          /\ (\A i \in 1..Len(lsAccounts) : lsAccounts[i].id # fnIn'.accountId)
                => (~result'.success /\ lsAccounts' = lsAccounts)
          /\ (fnIn'.newBalance # NaN /\ fnIn'.newBalance < 0)
                => (~result'.success /\ lsAccounts' = lsAccounts)
          /\ ~result'.success => lsAccounts' = lsAccounts
          /\ result'.success =>
                /\ otherAccountsKept(lsAccounts, lsAccounts', fnIn'.accountId)
                /\ \A i \in 1..Len(lsAccounts) :
                      lsAccounts[i].id = fnIn'.accountId =>
                          \A f \in DOMAIN lsAccounts[i] \ {"balance", "updatedAt"} :
                              lsAccounts'[i][f] = lsAccounts[i][f]]_vars

----------------------------------------------------------------------------
(* Claims about deleting accounts                                          *)
DeleteOps == {"removeAccount", "AccountDetail.delete", "Accounts.delete"}

hasAccount(accounts, accountId) ==
    \E i \in 1..Len(accounts) : accounts[i].id = accountId

\* C25: once an account has been deleted through removeAccount, the
\* account-detail page or the account-list page, no stored investment has its
\* id as accountId, and the investments of other accounts are as before.
C25_DeleteRemovesInvestments ==
    [][(/\ lastOp' \in DeleteOps
        /\ hasAccount(lsAccounts, fnIn'.accountId)
        /\ ~hasAccount(lsAccounts', fnIn'.accountId))
       => /\ \A k \in 1..Len(lsInvestments') :
                lsInvestments'[k].accountId # fnIn'.accountId
          /\ lsInvestments' =
                SelectSeq(lsInvestments,
                          LAMBDA inv : inv.accountId # fnIn'.accountId)]_vars

\* C26: in every stored account the number starts with 10 exactly when the
\* accountType is SAVINGS, with 20 exactly when CHECKING and with 30 exactly
\* when BUSINESS, after any createAccount calls and EditAccount saves.
C26_PrefixEncodesType ==
    \A i \in 1..Len(lsAccounts) :
        \A type \in AccountTypes :
            (SubSeq(lsAccounts[i].accountNumber, 1, 2) = claimPrefix[type])
                <=> (lsAccounts[i].accountType = type)

\* C27: isSubmitting is true only while an onSubmit call is pending;
\* handleSubmit calls onSubmit only when validateForm finds no errors and
\* has isSubmitting set by then; once an onSubmit has resolved or thrown,
\* isSubmitting is false
C27_IsSubmitting ==
    [][/\ form'.isSubmitting => form'.pending > 0
       /\ (lastOp' = "handleSubmit" /\ form'.pending # form.pending) =>
              /\ validateSchema(form.values) = {}
              /\ form'.pending = form.pending + 1
              /\ form'.isSubmitting
       /\ (lastOp' = "handleSubmit" /\ validateSchema(form.values) # {}) =>
              /\ form'.pending = form.pending
              /\ form'.isSubmitting = form.isSubmitting
       /\ lastOp' = "onSubmitSettled" => ~form'.isSubmitting]_vars

C27_Witness ==
    /\ lastOp = "onSubmitSettled"
    /\ result.kind = "thrown"
    /\ ~form.isSubmitting
    /\ form.pending = 0

\* C28: a fetch that is in flight when clearCache runs does not put its
\* payload into the cache when it completes. A call that completes in the
\* very step after clearCache was issued before the clear, so the cache is
\* still empty after it.
C28_InFlightDoesNotRepopulate ==
    [][(lastOp = "clearCache" /\ lastOp' = "complete") =>
            CACHE' = EmptyCache]_vars

\* the entries of the debounce log
isCall(i) == timers.log[i].kind = "call"
isRun(i) == timers.log[i].kind = "run"

\* C29: every run of func comes right after the most recent call of the
\* debounced function (no call and no other run in between), at least
\* Delay after it and with its arguments; between two calls less than Delay
\* apart func does not run; and when no timer is armed, the last call has
\* had its run. So a burst of calls gets exactly one run.
C29_Debounce ==
    /\ \A i \in 1..Len(timers.log) :
          isRun(i) =>
             /\ i > 1
             /\ isCall(i - 1)
             /\ timers.log[i].args = timers.log[i - 1].args
             /\ timers.log[i].at - timers.log[i - 1].at >= Delay
    /\ \A i \in 1..Len(timers.log), j \in 1..Len(timers.log) :
          (/\ i < j /\ isCall(i) /\ isCall(j)
           /\ timers.log[j].at - timers.log[i].at < Delay)
             => \A k \in i..j : isCall(k)
    /\ (timers.queue = {} /\ Len(timers.log) > 0) =>
          isRun(Len(timers.log))

\* a burst of two calls less than Delay apart, then the one run
C29_Witness ==
    /\ Len(timers.log) = 3
    /\ isCall(1) /\ isCall(2) /\ isRun(3)
    /\ timers.log[2].at - timers.log[1].at < Delay
    /\ timers.log[1].args # timers.log[2].args
    /\ timers.log[3].args = timers.log[2].args
    /\ timers.queue = {}

\* C30: for every non-empty string the two copies of
\* ValidationService.validateCPF and validators.cpf return the same boolean
C30_CpfValidatorsAgree ==
    (lastOp = "validateCPFCopies" /\ Len(fnIn) > 0) =>
        /\ fnOut.first = fnOut.second
        /\ fnOut.second = fnOut.util

C30_Witness ==
    /\ lastOp = "validateCPFCopies"
    /\ fnIn = CpfAFormatted
    /\ fnOut.first /\ fnOut.second /\ fnOut.util

====
